---------------------------- MODULE Spec2Model ----------------------------
(* A model of the daily-brief script, src/main.py: one process that finds  *)
(* the latest Linkfest post, extracts its article links, fetches and        *)
(* summarises up to ten of them through a cascade of generation backends,   *)
(* and mails the digest.  Every network call is one step of the process;    *)
(* what the network may answer depends on `world`.                          *)
(*                                                                          *)
(* A string is a finite sequence of tokens (each token a chunk of text);    *)
(* `in` is a test for a contiguous run of tokens and strip removes leading  *)
(* and trailing whitespace tokens.  The text of an article is represented  *)
(* by its length, the only attribute of it that the code inspects.          *)
EXTENDS Naturals, Sequences, FiniteSets, TLC

VARIABLES
    world,          \* the network: live, or the snapshot that is replayed
    clock,          \* the latest date that date.today() has returned
    run,            \* the number of the current run of the script
    delivered,      \* per finished run: the document it handed to send_email
    pc,             \* the position of the process in __main__
    linkfest_url,   \* main: linkfest_url
    post_page,      \* the page extract_article_links last parsed
    articles,       \* main: articles
    email_content,  \* main: email_content
    done,           \* main: the number of iterations of the article loop completed
    full_text,      \* main: full_text of the current article (its length)
    summary,        \* main: summary of the current article
    tried,          \* get_working_summary: static backends already tried
    listing,        \* get_working_summary: what list_models() yields
    pos,            \* get_working_summary: listing entries already consumed
    requests,       \* the backends sent a generation request for the current article
    list_calls,     \* the list_models() calls made for the current article
    calls           \* the network calls the current run has made, by kind

vars == <<world, clock, run, delivered, pc, linkfest_url, post_page, articles,
          email_content, done, full_text, summary, tried, listing, pos,
          requests, list_calls, calls>>

--------------------------------------------------------------------------
(* Bounds of the model. *)

\* the longest live post, in paragraphs
MaxLivePost == 2
\* the longest replayed post, in paragraphs
MaxParagraphs == 11
\* the most entries list_models() yields
MaxListing == 2
\* the most anchors of a homepage, and of a paragraph
MaxAnchors == 2
\* the last date of the model's calendar (dates are 0..MaxDay)
MaxDay == 1
\* the number of runs a replay makes
Runs == 2

--------------------------------------------------------------------------
(* Strings. *)

Min(a, b) == IF a <= b THEN a ELSE b

SeqsUpTo(S, n) == UNION {[1..m -> S] : m \in 0..n}

\* str.__contains__: sub occurs in s as a contiguous run
Contains(s, sub) ==
    \E n \in 0..Len(s) :
        /\ n + Len(sub) <= Len(s)
        /\ \A m \in 1..Len(sub) : s[n + m] = sub[m]

IsSpace(t) == t = " "

RECURSIVE LStrip(_)
LStrip(s) ==
    IF s = <<>> THEN <<>>
    ELSE IF IsSpace(Head(s)) THEN LStrip(Tail(s)) ELSE s

RECURSIVE RStrip(_)
RStrip(s) ==
    IF s = <<>> THEN <<>>
    ELSE IF IsSpace(s[Len(s)]) THEN RStrip(SubSeq(s, 1, Len(s) - 1)) ELSE s

\* str.strip()
Strip(s) == RStrip(LStrip(s))

--------------------------------------------------------------------------
(* Program constants. *)

SOURCE_URL == <<"https://", "alphaideas.in", "/">>

priority_models ==
    <<"gemini-1.5-flash", "gemini-1.5-pro", "gemini-pro", "gemini-1.0-pro">>

\* main: len(full_text) < 200
Threshold == 200
\* fetch_article_text: [:10000]
TextLimit == 10000
\* main: articles[:10]
TopN == 10

NoTextMsg == <<"Could not extract text (Site might block bots or be empty).">>

AllFailedMsg == <<"Summary unavailable (All AI models failed to respond).">>

\* extract_article_links: the substrings that exclude a link
DenyList == {<<"alphaideas.in">>, <<"facebook.com">>, <<"twitter.com">>}

--------------------------------------------------------------------------
(* Values: optional URLs, anchors' href attributes, documents. *)

\* Python's None, as a value of linkfest_url
None == [none |-> TRUE, url |-> <<>>]

Some(u) == [none |-> FALSE, url |-> u]

\* an anchor without the attribute: a_tag['href'] raises KeyError
NoHref == [has |-> FALSE, url |-> <<>>]

Href(u) == [has |-> TRUE, url |-> u]

\* email_content before line 153 assigns it
NoDoc == [date |-> 0, source |-> <<>>, entries |-> <<>>]

--------------------------------------------------------------------------
(* The pure part of the scraping functions: what each returns for the page *)
(* its request was answered with.  A page with ok = FALSE is a request   *)
(* that raised.                                                            *)

RECURSIVE FirstLinkfest(_)
FirstLinkfest(anchors) ==
    IF anchors = <<>> THEN None
    ELSE LET link == Head(anchors) IN
         IF /\ Contains(link.text, <<"Linkfest">>)
            /\ ~Contains(link.text, <<"Continue reading">>)
         THEN IF link.href.has THEN Some(link.href.url)
              ELSE None                     \* KeyError, caught at line 83
         ELSE FirstLinkfest(Tail(anchors))

get_latest_linkfest_url(home) ==
    IF home.ok THEN FirstLinkfest(home.anchors) ELSE None

\* a reading of the paragraph that takes its last anchor
LastAnchor(p) == p.anchors[Len(p.anchors)]

\* the anchor a paragraph contributes: p.find('a') takes the first one
FirstAnchor(p) == p.anchors[1]

Denied(href) == \E d \in DenyList : Contains(href, d)

RECURSIVE ExtractFrom(_, _)
ExtractFrom(paragraphs, links_to_summarize) ==
    IF paragraphs = <<>> THEN links_to_summarize
    ELSE LET p == Head(paragraphs) IN
         IF p.anchors = <<>>
         THEN ExtractFrom(Tail(paragraphs), links_to_summarize)
         ELSE LET a_tag == FirstAnchor(p) IN
              IF ~a_tag.has
              THEN links_to_summarize       \* KeyError, caught at line 107
              ELSE IF a_tag.url # <<>> /\ ~Denied(a_tag.url)
                   THEN ExtractFrom(Tail(paragraphs),
                            Append(links_to_summarize,
                                   [title |-> Strip(p.text), url |-> a_tag.url]))
                   ELSE ExtractFrom(Tail(paragraphs), links_to_summarize)

extract_article_links(post) ==
    IF post.ok /\ post.container THEN ExtractFrom(post.paragraphs, <<>>)
    ELSE <<>>

fetch_article_text(page) ==
    IF page.ok THEN Min(page.len, TextLimit) ELSE 0

\* a loop over every article
Uncapped(as) == as

\* the articles the loop of main processes
Capped(as) == SubSeq(as, 1, Min(Len(as), TopN))

\* a threshold test that is off by one
TooShortInclusive(text) == text <= Threshold

\* main line 163
TooShort(text) == text < Threshold

\* main line 145: not linkfest_url
NotFound(url) == url.none \/ url.url = <<>>

--------------------------------------------------------------------------
(* What the network can answer. *)

LinkfestPost == <<"https://", "alphaideas.in", "/linkfest-week-12">>

\* the anchors a homepage is made of
HomeAnchors ==
    { [text |-> <<"Linkfest", " Week 12">>, href |-> Href(LinkfestPost)],
      [text |-> <<"Linkfest", " Week 12 ", "Continue reading">>,
       href |-> Href(LinkfestPost \o <<"#more">>)],
      [text |-> <<"Linkfest", " Week 11">>, href |-> Href(<<>>)],
      [text |-> <<"Linkfest", " Week 10">>, href |-> NoHref],
      [text |-> <<"About">>, href |-> Href(SOURCE_URL \o <<"about">>)] }

HomeDown == [ok |-> FALSE, anchors |-> <<>>]

Homepages ==
    {HomeDown} \cup {[ok |-> TRUE, anchors |-> s] : s \in SeqsUpTo(HomeAnchors, MaxAnchors)}

ArticleURL(n) == <<"https://", "example.com", "/story-" \o ToString(n)>>

\* a post of n paragraphs, each the title and the link of one article
PostOf(n) ==
    [ok |-> TRUE, container |-> TRUE,
     paragraphs |-> [p \in 1..n |->
        [text |-> <<" ", "Story " \o ToString(p), " ">>,
         anchors |-> <<Href(ArticleURL(p))>>]]]

PostDown == [ok |-> FALSE, container |-> FALSE, paragraphs |-> <<>>]

PostBare == [ok |-> TRUE, container |-> FALSE, paragraphs |-> PostOf(1).paragraphs]

\* the paragraphs the posts given to extract_article_links are made of
Paragraphs ==
    LET ext1 == Href(ArticleURL(1))
        ext2 == Href(ArticleURL(2))
        home == Href(SOURCE_URL \o <<"tag/", "linkfest">>)
        fb   == Href(<<"https://", "www.", "facebook.com", "/sharer">>)
        tw   == Href(<<"https://", "example.com", "/?via=", "twitter.com">>)
        P(t, as) == [text |-> <<" ", t, " ">>, anchors |-> as]
    IN { P("plain", <<>>),
         P("one", <<ext1>>),
         P("two", <<ext2, home>>),
         P("inner", <<home, ext1>>),
         P("share", <<fb>>),
         P("via", <<tw, ext2>>),
         P("bare", <<NoHref, ext1>>),
         P("void", <<Href(<<>>), ext2>>) }

\* the posts extract_article_links is given
ExtractPosts ==
    {PostDown}
    \cup {[ok |-> TRUE, container |-> c, paragraphs |-> ps] :
            c \in BOOLEAN, ps \in SeqsUpTo(Paragraphs, MaxLivePost)}

\* an article's page: the length of the text of its paragraphs, joined
ArticlePages ==
    {[ok |-> FALSE, len |-> 0]}
    \cup {[ok |-> TRUE, len |-> n] : n \in {Threshold - 1, Threshold, TextLimit + 1}}

\* what a backend answers: an exception, or a response with this text
Failure == [ok |-> FALSE, text |-> <<>>]

Response(t) == [ok |-> TRUE, text |-> t]

Outcomes ==
    {Failure} \cup {Response(t) : t \in {<<>>, <<" ">>, <<" ", "Two more sentences.", " ">>}}

\* the entries list_models() can yield
ListedModels ==
    { [name |-> priority_models[1],
       supported_generation_methods |-> {"generateContent", "countTokens"}],
      [name |-> "models/gemini-next",
       supported_generation_methods |-> {"generateContent", "countTokens"}],
      [name |-> "models/embedding-001",
       supported_generation_methods |-> {"embedContent"}] }

\* list_models() yields `models`, then ends or (error) raises
Listings == [models : SeqsUpTo(ListedModels, MaxListing), error : BOOLEAN]

\* a network that may answer anything; its other fields are not read
LiveWorld ==
    [mode |-> "live", home |-> HomeDown, paragraphs |-> 0, shift |-> 0,
     server |-> priority_models[1]]

\* the page of the article of paragraph p in a snapshot: down, of exactly
\* the threshold's length, or longer than the limit, in turn
SnapshotPage(p, shift) ==
    LET kind == (p + shift) % 3 IN
    IF kind = 0 THEN [ok |-> FALSE, len |-> 0]
    ELSE IF kind = 1 THEN [ok |-> TRUE, len |-> Threshold]
    ELSE [ok |-> TRUE, len |-> TextLimit + 1]

\* a stub service: `server` alone answers, and only the longest text
StubAnswer(server, backend, text) ==
    IF backend = server /\ text = TextLimit
    THEN Response(<<" ", "Two more sentences.", " ">>)
    ELSE Failure

StubListing ==
    [models |-> <<[name |-> "models/gemini-next",
                   supported_generation_methods |-> {"generateContent", "countTokens"}]>>,
     error |-> FALSE]

\* what the network may answer to each request, in world w
HomeReplies(w) == IF w.mode = "replay" THEN {w.home} ELSE Homepages

PostReplies(w) ==
    IF w.mode = "replay" THEN {PostOf(w.paragraphs)}
    ELSE IF w.mode = "extract" THEN ExtractPosts
    ELSE {PostDown, PostBare} \cup {PostOf(n) : n \in 0..MaxLivePost}

PageReplies(w, url) ==
    IF w.mode = "replay"
    THEN {SnapshotPage(CHOOSE p \in 1..MaxParagraphs : ArticleURL(p) = url, w.shift)}
    ELSE ArticlePages

GenReplies(w, backend, text) ==
    IF w.mode = "replay" THEN {StubAnswer(w.server, backend, text)} ELSE Outcomes

ListReplies(w) == IF w.mode = "replay" THEN {StubListing} ELSE Listings

\* the dates date.today() may return
Days == 0..MaxDay

--------------------------------------------------------------------------
(* The process. *)

NoCalls == [home |-> 0, post |-> 0, page |-> 0, gen |-> 0, list |-> 0,
            smtp |-> 0, smtp_failed |-> 0]

\* the state of a process that has just started
Start ==
    /\ pc = "locate"
    /\ linkfest_url = None
    /\ post_page = PostDown
    /\ articles = <<>>
    /\ email_content = NoDoc
    /\ done = 0
    /\ full_text = 0
    /\ summary = <<>>
    /\ tried = 0
    /\ listing = [models |-> <<>>, error |-> FALSE]
    /\ pos = 0
    /\ requests = <<>>
    /\ list_calls = 0
    /\ calls = NoCalls

Init ==
    /\ world = LiveWorld
    /\ clock = 0
    /\ run = 1
    /\ delivered = <<>>
    /\ Start

Called(kind) == [calls EXCEPT ![kind] = @ + 1]

\* main lines 144-147
Locate ==
    /\ pc = "locate"
    /\ \E home \in HomeReplies(world) :
        /\ linkfest_url' = get_latest_linkfest_url(home)
        /\ calls' = Called("home")
        /\ IF NotFound(linkfest_url')
           THEN /\ pc' = "exit"
                /\ delivered' = Append(delivered, [attempted |-> FALSE, doc |-> NoDoc])
           ELSE /\ pc' = "extract"
                /\ UNCHANGED delivered
    /\ UNCHANGED <<world, clock, run, post_page, articles, email_content, done,
                   full_text, summary, tried, listing, pos, requests, list_calls>>

\* main lines 153-154
Header(today, url) == [date |-> today, source |-> url, entries |-> <<>>]

\* main lines 149-154
Extract ==
    /\ pc = "extract"
    /\ \E post \in PostReplies(world), today \in Days :
        /\ today >= clock
        /\ post_page' = post
        /\ articles' = extract_article_links(post)
        /\ clock' = today
        /\ email_content' = Header(today, linkfest_url.url)
    /\ calls' = Called("post")
    /\ done' = 0
    /\ pc' = "loop"
    /\ UNCHANGED <<world, run, delivered, linkfest_url, full_text, summary,
                   tried, listing, pos, requests, list_calls>>

\* the article of the current iteration
article == Capped(articles)[done + 1]

\* an entry that also records the date it was written on
StampedEntry(a, s) == [title |-> a.title, url |-> a.url, summary |-> s, date |-> clock]

\* main lines 169-171
Entry(a, s) == [title |-> a.title, url |-> a.url, summary |-> s]

\* get_working_summary has returned, or main has set the summary itself:
\* main lines 169-173
Finish(result) ==
    IF result.raised
    THEN /\ pc' = "crashed"
         /\ UNCHANGED <<summary, email_content, done>>
    ELSE /\ summary' = result.value
         /\ email_content' =
                [email_content EXCEPT !.entries = Append(@, Entry(article, result.value))]
         /\ done' = done + 1
         /\ pc' = "loop"

Returned(s) == [raised |-> FALSE, value |-> s]

Raised == [raised |-> TRUE, value |-> <<>>]

\* main lines 157-167
Fetch ==
    /\ pc = "loop"
    /\ done < Len(Capped(articles))
    /\ \E page \in PageReplies(world, article.url) :
        /\ full_text' = fetch_article_text(page)
        /\ IF TooShort(full_text')
           THEN Finish(Returned(NoTextMsg))
           ELSE /\ pc' = "static"
                /\ UNCHANGED <<summary, email_content, done>>
    /\ calls' = Called("page")
    /\ tried' = 0
    /\ listing' = [models |-> <<>>, error |-> FALSE]
    /\ pos' = 0
    /\ requests' = <<>>
    /\ list_calls' = 0
    /\ UNCHANGED <<world, clock, run, delivered, linkfest_url, post_page, articles>>


\* a return of the response text as it came
GeneratedRaw(r) == Returned(r.text)

\* get_working_summary lines 49 and 62: return response.text.strip()
Generated(r) == Returned(Strip(r.text))

\* a capability test that lets every listed model through
SupportsAnything(m) == TRUE

\* get_working_summary line 58
Supports(m) == "generateContent" \in m.supported_generation_methods

\* the next entry of the listing, after `from`, that line 58 lets through;
\* 0 when there is none
NextSupported(models, from) ==
    LET later == {n \in (from + 1)..Len(models) : Supports(models[n])}
    IN IF later = {} THEN 0 ELSE CHOOSE n \in later : \A m \in later : n <= m

\* a handler that lets the error of list_models() through
DiscoveryUncaught(l) == IF l.error THEN Raised ELSE Returned(AllFailedMsg)

\* get_working_summary lines 65-68: the listing has ended, or has raised
DiscoveryExhausted(l) == Returned(AllFailedMsg)

\* get_working_summary lines 44-52: one pass of the loop over priority_models
StaticAttempt ==
    /\ pc = "static"
    /\ LET model_name == priority_models[tried + 1] IN
       \E response \in GenReplies(world, model_name, full_text) :
        /\ requests' = Append(requests, [backend |-> model_name, reply |-> response])
        /\ IF response.ok
           THEN /\ Finish(Generated(response))
                /\ UNCHANGED tried
           ELSE /\ tried' = tried + 1
                /\ pc' = IF tried' < Len(priority_models) THEN "static" ELSE "discover"
                /\ UNCHANGED <<summary, email_content, done>>
    /\ calls' = Called("gen")
    /\ UNCHANGED <<world, clock, run, delivered, linkfest_url, post_page, articles,
                   full_text, listing, pos, list_calls>>

\* the loop over the listing moves to its next supported entry, or ends
Advance(l, from) ==
    LET n == NextSupported(l.models, from) IN
    IF n = 0
    THEN /\ pos' = Len(l.models)
         /\ Finish(DiscoveryExhausted(l))
    ELSE /\ pos' = n
         /\ pc' = "dynamic"
         /\ UNCHANGED <<summary, email_content, done>>

\* get_working_summary lines 55-58: list_models() is called
Discover ==
    /\ pc = "discover"
    /\ \E l \in ListReplies(world) :
        /\ listing' = l
        /\ Advance(l, 0)
    /\ list_calls' = list_calls + 1
    /\ calls' = Called("list")
    /\ UNCHANGED <<world, clock, run, delivered, linkfest_url, post_page, articles,
                   full_text, tried, requests>>

\* get_working_summary lines 59-64: one listed model is tried
DynamicAttempt ==
    /\ pc = "dynamic"
    /\ LET m == listing.models[pos] IN
       \E response \in GenReplies(world, m.name, full_text) :
        /\ requests' = Append(requests, [backend |-> m.name, reply |-> response])
        /\ IF response.ok
           THEN /\ Finish(Generated(response))
                /\ UNCHANGED pos
           ELSE Advance(listing, pos)
    /\ calls' = Called("gen")
    /\ UNCHANGED <<world, clock, run, delivered, linkfest_url, post_page, articles,
                   full_text, tried, listing, list_calls>>

\* a delivery that is tried again after it has failed
AfterDeliveryRetry(sent) == IF sent THEN "done" ELSE "loop"

\* send_email lines 130-138: success and failure are both only logged
AfterDelivery(sent) == "done"

\* main line 175 and send_email
SendEmail ==
    /\ pc = "loop"
    /\ done = Len(Capped(articles))
    /\ \E sent \in BOOLEAN :
        /\ calls' = [calls EXCEPT !.smtp = @ + 1,
                                  !.smtp_failed = IF sent THEN @ ELSE @ + 1]
        /\ pc' = AfterDelivery(sent)
    /\ delivered' = Append(delivered, [attempted |-> TRUE, doc |-> email_content])
    \* the loop is over: what it kept of its last article is dead
    /\ full_text' = 0
    /\ summary' = <<>>
    /\ tried' = 0
    /\ listing' = [models |-> <<>>, error |-> FALSE]
    /\ pos' = 0
    /\ requests' = <<>>
    /\ list_calls' = 0
    /\ UNCHANGED <<world, clock, run, linkfest_url, post_page, articles,
                   email_content, done>>

Next ==
    \/ Locate
    \/ Extract
    \/ Fetch
    \/ StaticAttempt
    \/ Discover
    \/ DynamicAttempt
    \/ SendEmail

Spec == Init /\ [][Next]_vars

--------------------------------------------------------------------------
(* Replay: runs of the script against one snapshot of the site and a       *)
(* generation service that answers the same request the same way.          *)

\* a snapshot: the homepage, the post's length, which articles' pages are
\* down, short and long, and the backend that answers
ReplayWorld(home, n, shift, server) ==
    [mode |-> "replay", home |-> home, paragraphs |-> n, shift |-> shift,
     server |-> server]

ReplayHomes ==
    {HomeDown,
     [ok |-> TRUE,
      anchors |-> <<[text |-> <<"Linkfest", " Week 12 ", "Continue reading">>,
                     href |-> Href(LinkfestPost \o <<"#more">>)],
                    [text |-> <<"Linkfest", " Week 12">>, href |-> Href(LinkfestPost)]>>]}

ReplayWorlds ==
    {ReplayWorld(home, n, shift, server) :
        home \in ReplayHomes, n \in 0..MaxParagraphs, shift \in 0..2,
        server \in {priority_models[1], priority_models[3], "models/gemini-next"}}

InitReplay ==
    /\ world \in ReplayWorlds
    /\ clock = 0
    /\ run = 1
    /\ delivered = <<>>
    /\ Start

\* the script is started again: nothing of the process before it is left
Rerun ==
    /\ pc \in {"exit", "done"}
    /\ run < Runs
    /\ run' = run + 1
    /\ pc' = "locate"
    /\ linkfest_url' = None
    /\ post_page' = PostDown
    /\ articles' = <<>>
    /\ email_content' = NoDoc
    /\ done' = 0
    /\ full_text' = 0
    /\ summary' = <<>>
    /\ tried' = 0
    /\ listing' = [models |-> <<>>, error |-> FALSE]
    /\ pos' = 0
    /\ requests' = <<>>
    /\ list_calls' = 0
    /\ calls' = NoCalls
    /\ UNCHANGED <<world, clock, delivered>>

NextReplay == Next \/ Rerun

SpecReplay == InitReplay /\ [][NextReplay]_vars

--------------------------------------------------------------------------
(* extract_article_links alone: the process has found the post and is      *)
(* about to extract; the post's page is any of ExtractPosts.               *)

InitExtract ==
    /\ world = [LiveWorld EXCEPT !.mode = "extract"]
    /\ clock = 0
    /\ run = 1
    /\ delivered = <<>>
    /\ pc = "extract"
    /\ linkfest_url = Some(LinkfestPost)
    /\ post_page = PostDown
    /\ articles = <<>>
    /\ email_content = NoDoc
    /\ done = 0
    /\ full_text = 0
    /\ summary = <<>>
    /\ tried = 0
    /\ listing = [models |-> <<>>, error |-> FALSE]
    /\ pos = 0
    /\ requests = <<>>
    /\ list_calls = 0
    /\ calls = [NoCalls EXCEPT !.home = 1]

SpecExtract == InitExtract /\ [][Extract]_vars

--------------------------------------------------------------------------
(* Properties. *)

\* s without its leading and trailing whitespace
Trimmed(s) ==
    LET inked == {n \in 1..Len(s) : s[n] # " "} IN
    IF inked = {} THEN <<>>
    ELSE SubSeq(s, CHOOSE n \in inked : \A m \in inked : n <= m,
                   CHOOSE n \in inked : \A m \in inked : m <= n)

\* the current article has been processed and its entry appended
Finished == pc = "loop" /\ done >= 1

LastEntry == email_content.entries[done]

Failed(reqs) == \A m \in 1..Len(reqs) : ~reqs[m].reply.ok

Generates(m) == "generateContent" \in m.supported_generation_methods

\* C1: whenever the k-th request of a summarisation (k in 1..4) is the first
\* one answered without error, exactly k requests were made, to the first k
\* backends of the priority list in order, list_models() was not called, and
\* the summary returned and recorded is the trimmed text of that answer.
C1_StaticShortCircuit ==
    \A k \in 1..4 :
        ( /\ Len(requests) >= k
          /\ requests[k].reply.ok
          /\ Failed(SubSeq(requests, 1, k - 1)) )
        => /\ Len(requests) = k
           /\ \A m \in 1..k : requests[m].backend = priority_models[m]
           /\ list_calls = 0
           /\ Finished
           /\ summary = Trimmed(requests[k].reply.text)
           /\ LastEntry.summary = summary

C1_Witness ==
    /\ Finished
    /\ Len(requests) = 3
    /\ requests[3].reply = Response(<<" ", "Two more sentences.", " ">>)
    /\ summary = <<"Two more sentences.">>

\* C2: no exception leaves get_working_summary; a summarisation all of whose
\* requests failed returns the "all models failed" message, also when
\* list_models() raised at once or part-way; and that message is returned only
\* when no request was answered.
C2_AllFailedSentinel ==
    /\ pc # "crashed"
    /\ (Finished /\ full_text >= 200)
        => (Failed(requests) <=> summary = AllFailedMsg)
    /\ (list_calls = 1 /\ Failed(requests) /\ pos = Len(listing.models)
            /\ pc # "dynamic")
        => (Finished /\ summary = AllFailedMsg /\ LastEntry.summary = AllFailedMsg)

C2_Witness ==
    /\ Finished
    /\ listing.error
    /\ Len(listing.models) = 1
    /\ Len(requests) = 5
    /\ summary = AllFailedMsg

\* C3: list_models() is called at most once and only after the four static
\* backends have each failed; the requests after the fourth go to the listed
\* models that support generateContent, in the order listed and to no other;
\* and the first of them that is answered ends the summarisation with its
\* trimmed text.
C3_DynamicDiscovery ==
    LET supported == SelectSeq(listing.models, Generates)
        dynamic == SubSeq(requests, 5, Len(requests))
    IN /\ list_calls <= 1
       /\ list_calls = 0 => (Len(requests) <= 4 /\ listing.models = <<>>)
       /\ list_calls = 1 =>
            /\ Len(requests) >= 4
            /\ \A m \in 1..4 : /\ requests[m].backend = priority_models[m]
                               /\ ~requests[m].reply.ok
       /\ Len(dynamic) <= Len(supported)
       /\ \A m \in 1..Len(dynamic) :
            /\ dynamic[m].backend = supported[m].name
            /\ dynamic[m].reply.ok =>
                /\ m = Len(dynamic)
                /\ Finished
                /\ summary = Trimmed(dynamic[m].reply.text)
                /\ LastEntry.summary = summary

C3_Witness ==
    /\ Finished
    /\ Len(requests) = 5
    /\ requests[5].reply.ok
    /\ Len(listing.models) = 2
    /\ ~Generates(listing.models[1])
    /\ requests[5].backend = listing.models[2].name

\* C4: an article whose text is shorter than 200 gets the "could not extract"
\* message with no generation request and no list_models() call; an article
\* whose text has 200 characters or more enters the cascade.
C4_Threshold ==
    /\ pc \in {"static", "discover", "dynamic"} => full_text >= 200
    /\ (requests # <<>> \/ list_calls > 0) => full_text >= 200
    /\ Finished =>
        IF full_text < 200
        THEN /\ summary = NoTextMsg
             /\ LastEntry.summary = NoTextMsg
             /\ requests = <<>>
             /\ list_calls = 0
        ELSE /\ requests # <<>>
             /\ requests[1].backend = priority_models[1]

C4_Witness ==
    /\ Finished
    /\ full_text = 199
    /\ summary = NoTextMsg
    /\ calls.page = 2
    /\ calls.gen > 0

\* C5: the digest never holds more than 10 entries, its entries are the
\* leading extracted references, one each and in their order, and at delivery
\* they are the first min(n, 10) of the n references.
C5_CapAndOrder ==
    LET es == email_content.entries IN
    /\ Len(es) <= 10
    /\ Len(es) <= Len(articles)
    /\ \A n \in 1..Len(es) :
        /\ es[n].title = articles[n].title
        /\ es[n].url = articles[n].url
    /\ pc = "done" =>
        /\ Len(es) = IF Len(articles) < 10 THEN Len(articles) ELSE 10
        /\ delivered[run] = [attempted |-> TRUE, doc |-> email_content]

C5_Witness ==
    /\ pc = "done"
    /\ Len(articles) = 11
    /\ Len(email_content.entries) = 10
    /\ \E a, b, c \in 1..10 :
        /\ email_content.entries[a].summary = NoTextMsg
        /\ email_content.entries[b].summary = AllFailedMsg
        /\ email_content.entries[c].summary = <<"Two more sentences.">>


Absent == linkfest_url.none \/ linkfest_url.url = <<>>

NothingAfterLocate ==
    /\ calls.post = 0
    /\ calls.page = 0
    /\ calls.gen = 0
    /\ calls.list = 0
    /\ calls.smtp = 0

\* C6, as claimed: a run whose locate returned None ends with no further
\* call, and every other run attempts delivery exactly once.
C6_AsClaimed ==
    /\ (pc # "locate" /\ linkfest_url.none) => (pc = "exit" /\ NothingAfterLocate)
    /\ (pc \in {"exit", "done"} /\ ~linkfest_url.none) => calls.smtp = 1

\* C6, amended: a run whose locate returned None or an empty URL ends with no
\* extract, fetch, generation or delivery call; every other run goes on until
\* it has attempted delivery, which it does exactly once, after the last of
\* the capped articles, and a failed delivery is neither repeated nor fatal.
C6_Delivery ==
    /\ (pc # "locate" /\ Absent) => (pc = "exit" /\ NothingAfterLocate)
    /\ (pc # "locate" /\ ~Absent) =>
        /\ pc \notin {"exit", "crashed"}
        /\ pc # "done" => ENABLED Next
        /\ calls.smtp = IF pc = "done" THEN 1 ELSE 0
        /\ calls.smtp_failed <= calls.smtp
        /\ pc = "done" =>
            /\ done = (IF Len(articles) < 10 THEN Len(articles) ELSE 10)
            /\ calls.page = done
            /\ ~ENABLED Next

C6_Witness ==
    /\ pc = "done"
    /\ calls.smtp_failed = 1
    /\ Len(articles) = 2
    /\ email_content.entries[1].summary = NoTextMsg
    /\ email_content.entries[2].summary = AllFailedMsg

\* C7: the references extracted are, in paragraph order, each the first
\* anchor of a paragraph of its own, none with a denylisted substring in its
\* URL; a post that could not be fetched or has no content container gives
\* no reference.
C7_Extract ==
    pc = "loop" =>
        IF ~post_page.ok \/ ~post_page.container THEN articles = <<>>
        ELSE LET ps == post_page.paragraphs IN
             /\ \E f \in [1..Len(articles) -> 1..Len(ps)] :
                 /\ \A a, b \in 1..Len(articles) : a < b => f[a] < f[b]
                 /\ \A n \in 1..Len(articles) :
                     /\ ps[f[n]].anchors # <<>>
                     /\ ps[f[n]].anchors[1].has
                     /\ articles[n].url = ps[f[n]].anchors[1].url
             /\ \A n \in 1..Len(articles) :
                 \A t \in 1..Len(articles[n].url) :
                     articles[n].url[t] \notin {"alphaideas.in", "facebook.com", "twitter.com"}

C7_Witness ==
    /\ pc = "loop"
    /\ post_page.ok /\ post_page.container
    /\ Len(post_page.paragraphs) = 2
    /\ post_page.paragraphs[1].anchors = <<Href(SOURCE_URL \o <<"tag/", "linkfest">>),
                                           Href(ArticleURL(1))>>
    /\ Len(post_page.paragraphs[2].anchors) = 2
    /\ articles = <<[title |-> <<"two">>, url |-> ArticleURL(2)]>>

\* C8, as claimed: the runs of a replay hand over identical documents.
C8_Identical ==
    \A a, b \in 1..Len(delivered) : delivered[a] = delivered[b]

\* C8, amended: the runs of a replay agree on whether delivery is attempted,
\* on the source link and on every entry, and hand over identical documents
\* whenever date.today() gave them the same date.
C8_SameDay ==
    \A a, b \in 1..Len(delivered) :
        /\ delivered[a].attempted = delivered[b].attempted
        /\ delivered[a].doc.source = delivered[b].doc.source
        /\ delivered[a].doc.entries = delivered[b].doc.entries
        /\ delivered[a].doc.date = delivered[b].doc.date => delivered[a] = delivered[b]

C8_Witness ==
    /\ Len(delivered) = 2
    /\ delivered[1].attempted
    /\ delivered[1].doc.date # delivered[2].doc.date
    /\ Len(delivered[2].doc.entries) = 3

\* C9: within one summarisation no backend is sent two generation requests.
C9_NoBackendTwice ==
    \A a, b \in 1..Len(requests) :
        a # b => requests[a].backend # requests[b].backend

\* C10: a response without text does not end the cascade, so no summary in
\* the digest is empty.
C10_NeverEmpty ==
    /\ \A n \in 1..Len(email_content.entries) : email_content.entries[n].summary # <<>>
    /\ \A m \in 1..Len(requests) :
        (requests[m].reply.ok /\ Trimmed(requests[m].reply.text) = <<>>)
            => ~(Finished /\ m = Len(requests))

==========================================================================
